---- MODULE Spec2Model ----
(***************************************************************************)
(* Model of the shoom-backend room server (src/src/index.ts, the module    *)
(* that starts at line 222; src/src/index.js is its compiled form).        *)
(*                                                                         *)
(* The server runs on one event loop, so every handler below is one atomic *)
(* action: the socket.io connection / disconnect / admin_action /          *)
(* send_message / send_reaction handlers, the synchronous part of          *)
(* GET /api/token up to its await, the continuation after the await, and   *)
(* the setInterval callback (the whole forEach over the rooms).            *)
(*                                                                         *)
(* Room identifiers range over ordinary keys: strings that are not names   *)
(* inherited from Object.prototype by the plain object `rooms`.            *)
(***************************************************************************)
EXTENDS Integers, Sequences, FiniteSets, TLC

(***************************************************************************)
(* Bounds of the model.                                                    *)
(***************************************************************************)
MaxMsgs == 1
MaxDonations == 1
MaxPending == 1
MaxAppends == 60
MaxRun == 112
MaxInitTime == 46
MaxTicks == 5

(***************************************************************************)
(* Program constants.                                                      *)
(***************************************************************************)
ChatLimit == 50
IntroTime == 15
RoundTime == 45
AdTime == 5

RoomIds == {"r1", "r2"}
Sockets == {1, 2}
NoRoomId == ""
Phases == {"waiting", "intro", "roundA", "roundB", "ad", "voting", "rage", "finished"}
Players == {"A", "B", "none"}
AdminActions == {"start", "next_round", "reset", "pause"}
ReactionTypes == {"fire", "heart"}
Names == {"", "ann"}
Roles == {"debater", "viewer"}

(* payload.amount is optional: <<>> is an absent amount, <<n>> the number n *)
Absent == <<>>
Amounts == {Absent, <<0>>, <<5>>}
Payloads == [user : {"ann"}, text : {"hi"}, isDonation : BOOLEAN, amount : Amounts]
PlainPayload == [user |-> "ann", text |-> "hi", isDonation |-> FALSE, amount |-> Absent]
DonationPayload == [user |-> "ann", text |-> "hi", isDonation |-> TRUE, amount |-> <<5>>]
ChatPayloads == {PlainPayload, DonationPayload}
InitTimes == 0..MaxInitTime

VARIABLES
  rooms,      \* the registry: room id -> RoomState, for the ids that are keys
  keys,       \* Object.keys(rooms): the ids in insertion order
  socks,      \* per socket: st in {"new", "rejected", "joined", "closed"}, its roomId
  msgSeq,     \* number of ChatMessage ids generated so far
  ticks,      \* number of counted scheduler ticks
  created,    \* per id, number of "Created new room" log lines
  referenced, \* ids named by an accepted connection or a validated token request
  pending,    \* token requests suspended at `await at.toJwt()`
  emitted,    \* the events the last handler emitted, in order
  last,       \* the last handler that ran, with its input and HTTP status
  before      \* the registry as it was when the last handler started

vars ==
  <<rooms, keys, socks, msgSeq, ticks, created, referenced, pending, emitted, last, before>>

(***************************************************************************)
(* RoomState and the registry.                                             *)
(***************************************************************************)
DefaultRoom ==
  [phase |-> "waiting", timeLeft |-> 0, activePlayer |-> "none",
   viewersCount |-> 0, chatMessages |-> <<>>, donations |-> <<>>]

Present(rs, id) == id \in DOMAIN rs

(* mutation: the store is overwritten on every call *)
createRoom(rs, id) ==
  [x \in DOMAIN rs \cup {id} |-> IF x = id THEN DefaultRoom ELSE rs[x]]

getOrCreateRoom(rs, id) ==
  IF Present(rs, id) THEN rs ELSE rs @@ (id :> DefaultRoom)

KeysAfter(ks, rs, id) ==
  IF Present(rs, id) THEN ks ELSE Append(ks, id)

CreatedAfter(cr, rs, id) ==
  IF Present(rs, id) THEN cr ELSE [cr EXCEPT ![id] = @ + 1]

(***************************************************************************)
(* Events handed to the transport.                                         *)
(***************************************************************************)
ToSocket(s) == [sock |-> s, room |-> NoRoomId]
ToRoom(id) == [sock |-> 0, room |-> id]
Event(name, to, data) == [ev |-> name, to |-> to, data |-> data]

Op(name, s, id, arg, status) ==
  [op |-> name, sock |-> s, room |-> id, arg |-> arg, status |-> status]

(***************************************************************************)
(* Phase machine: admin actions.                                           *)
(***************************************************************************)
SetPhase(r, ph, t, pl) ==
  [r EXCEPT !.phase = ph, !.timeLeft = t, !.activePlayer = pl]

(* mutation: no fallback branch, an unexpected phase is left alone *)
NextRoundNoFallback(r) ==
  IF r.phase = "intro" THEN SetPhase(r, "roundA", RoundTime, "A")
  ELSE IF r.phase = "roundA" THEN SetPhase(r, "roundB", RoundTime, "B")
  ELSE IF r.phase = "roundB" THEN SetPhase(r, "ad", AdTime, "none")
  ELSE IF r.phase = "ad" THEN SetPhase(r, "voting", 0, "none")
  ELSE r

NextRound(r) ==
  IF r.phase = "intro" THEN SetPhase(r, "roundA", RoundTime, "A")
  ELSE IF r.phase = "roundA" THEN SetPhase(r, "roundB", RoundTime, "B")
  ELSE IF r.phase = "roundB" THEN SetPhase(r, "ad", AdTime, "none")
  ELSE IF r.phase = "ad" THEN SetPhase(r, "voting", 0, "none")
  ELSE SetPhase(r, "roundA", RoundTime, "A")

(* mutation: reset forgets to clear the donations *)
ResetRoomKeepsDonations(r) ==
  [phase |-> "waiting", timeLeft |-> 0, activePlayer |-> "none",
   viewersCount |-> r.viewersCount, chatMessages |-> <<>>, donations |-> r.donations]

(* mutation: reset writes the default state, viewersCount included *)
ResetRoomDefault(r) ==
  [phase |-> "waiting", timeLeft |-> 0, activePlayer |-> "none",
   viewersCount |-> 0, chatMessages |-> <<>>, donations |-> <<>>]

ResetRoom(r) ==
  [phase |-> "waiting", timeLeft |-> 0, activePlayer |-> "none",
   viewersCount |-> r.viewersCount, chatMessages |-> <<>>, donations |-> <<>>]

AdminApply(r, action) ==
  IF action = "start" THEN SetPhase(r, "intro", IntroTime, "none")
  ELSE IF action = "next_round" THEN NextRound(r)
  ELSE IF action = "reset" THEN ResetRoom(r)
  ELSE r

(***************************************************************************)
(* Phase machine: one room's step of the scheduler tick.                   *)
(***************************************************************************)
Decrement(r) ==
  IF r.timeLeft > 0 THEN [r EXCEPT !.timeLeft = @ - 1] ELSE r

(* mutation: roundA -> roundB forgets to switch the active player *)
AutoAdvanceStalePlayer(r) ==
  IF r.timeLeft = 0 /\ r.phase # "waiting" /\ r.phase # "voting" /\ r.phase # "finished"
  THEN IF r.phase = "intro" THEN SetPhase(r, "roundA", RoundTime, "A")
       ELSE IF r.phase = "roundA" THEN SetPhase(r, "roundB", RoundTime, r.activePlayer)
       ELSE IF r.phase = "roundB" THEN SetPhase(r, "ad", AdTime, "none")
       ELSE IF r.phase = "ad" THEN SetPhase(r, "voting", 0, "none")
       ELSE r
  ELSE r

(* mutation: an expired timer is left where it is *)
AutoAdvanceNever(r) == r

(* mutation: the show ends in finished instead of voting *)
AutoAdvanceFinishes(r) ==
  IF r.timeLeft = 0 /\ r.phase # "waiting" /\ r.phase # "voting" /\ r.phase # "finished"
  THEN IF r.phase = "intro" THEN SetPhase(r, "roundA", RoundTime, "A")
       ELSE IF r.phase = "roundA" THEN SetPhase(r, "roundB", RoundTime, "B")
       ELSE IF r.phase = "roundB" THEN SetPhase(r, "ad", AdTime, "none")
       ELSE IF r.phase = "ad" THEN SetPhase(r, "finished", 0, "none")
       ELSE r
  ELSE r

(* mutation: the transition fires one second early *)
AutoAdvanceEarly(r) ==
  IF r.timeLeft <= 1 /\ r.phase # "waiting" /\ r.phase # "voting" /\ r.phase # "finished"
  THEN IF r.phase = "intro" THEN SetPhase(r, "roundA", RoundTime, "A")
       ELSE IF r.phase = "roundA" THEN SetPhase(r, "roundB", RoundTime, "B")
       ELSE IF r.phase = "roundB" THEN SetPhase(r, "ad", AdTime, "none")
       ELSE IF r.phase = "ad" THEN SetPhase(r, "voting", 0, "none")
       ELSE r
  ELSE r

AutoAdvance(r) ==
  IF r.timeLeft = 0 /\ r.phase # "waiting" /\ r.phase # "voting" /\ r.phase # "finished"
  THEN IF r.phase = "intro" THEN SetPhase(r, "roundA", RoundTime, "A")
       ELSE IF r.phase = "roundA" THEN SetPhase(r, "roundB", RoundTime, "B")
       ELSE IF r.phase = "roundB" THEN SetPhase(r, "ad", AdTime, "none")
       ELSE IF r.phase = "ad" THEN SetPhase(r, "voting", 0, "none")
       ELSE r
  ELSE r

AutoFires(r) ==
  /\ r.timeLeft = 0
  /\ r.phase \in {"intro", "roundA", "roundB", "ad"}

(* mutation: the auto-transition test runs before the decrement *)
TickRoomAdvanceFirst(r) == Decrement(AutoAdvance(r))

TickRoom(r) == AutoAdvance(Decrement(r))

(* mutation: every room is broadcast on every tick *)
TickChangedAlways(r) == TRUE

TickChanged(r) == r.timeLeft > 0 \/ AutoFires(Decrement(r))

RECURSIVE TickEvents(_, _)
TickEvents(ks, rs) ==
  IF ks = <<>> THEN <<>>
  ELSE LET id == Head(ks)
           rest == TickEvents(Tail(ks), rs)
       IN IF TickChanged(rs[id])
          THEN <<Event("state_update", ToRoom(id), TickRoom(rs[id]))>> \o rest
          ELSE rest

(***************************************************************************)
(* Chat ledger.                                                            *)
(***************************************************************************)
AmountOrZero(a) == IF a = Absent THEN 0 ELSE IF a[1] = 0 THEN 0 ELSE a[1]

NewMessage(n, p) ==
  [id |-> n, user |-> p.user, text |-> p.text, isDonation |-> p.isDonation,
   amount |-> AmountOrZero(p.amount)]

(* mutation: slice(0, n) instead of slice(-n) *)
FirstN(s, n) == IF Len(s) > n THEN SubSeq(s, 1, n) ELSE s

LastN(s, n) == IF Len(s) > n THEN SubSeq(s, Len(s) - n + 1, Len(s)) ELSE s

(* mutation: the length test is missing *)
TruncateNever(chat) == chat

Truncate(chat) == IF Len(chat) > ChatLimit THEN LastN(chat, ChatLimit) ELSE chat

AppendMessage(r, m, p) ==
  [r EXCEPT !.chatMessages = Truncate(Append(@, m)),
            !.donations = IF p.isDonation
                          THEN Append(@, [user |-> p.user, amount |-> p.amount])
                          ELSE @]

(***************************************************************************)
(* Initial state: the module has just been loaded.                         *)
(***************************************************************************)
Init ==
  /\ rooms = <<>>
  /\ keys = <<>>
  /\ socks = [s \in Sockets |-> [st |-> "new", roomId |-> NoRoomId]]
  /\ msgSeq = 0
  /\ ticks = 0
  /\ created = [id \in RoomIds |-> 0]
  /\ referenced = {}
  /\ pending = {}
  /\ emitted = <<>>
  /\ last = Op("init", 0, NoRoomId, "", 0)
  /\ before = <<>>

(***************************************************************************)
(* io.on('connection'): a handshake without roomId is disconnected.        *)
(***************************************************************************)
ConnectRejected(s) ==
  /\ socks[s].st = "new"
  /\ socks' = [socks EXCEPT ![s].st = "rejected"]
  /\ emitted' = <<>>
  /\ last' = Op("connect_rejected", s, NoRoomId, "", 0)
  /\ before' = rooms
  /\ UNCHANGED <<rooms, keys, msgSeq, ticks, created, referenced, pending>>

(***************************************************************************)
(* io.on('connection') with a roomId: join, getOrCreateRoom, count, emit.  *)
(***************************************************************************)
(* mutation: the join is not counted *)
JoinedUncounted(rs, id) == getOrCreateRoom(rs, id)

Joined(rs, id) ==
  LET got == getOrCreateRoom(rs, id)
  IN [got EXCEPT ![id].viewersCount = @ + 1]

Connect(s, id) ==
  /\ socks[s].st = "new"
  /\ id # NoRoomId
  /\ rooms' = Joined(rooms, id)
  /\ keys' = KeysAfter(keys, rooms, id)
  /\ created' = CreatedAfter(created, rooms, id)
  /\ referenced' = referenced \cup {id}
  /\ socks' = [socks EXCEPT ![s] = [st |-> "joined", roomId |-> id]]
  /\ emitted' = << Event("state_update", ToSocket(s), rooms'[id]),
                   Event("state_update", ToRoom(id), rooms'[id]) >>
  /\ last' = Op("connect", s, id, "", 0)
  /\ before' = rooms
  /\ UNCHANGED <<msgSeq, ticks, pending>>

(***************************************************************************)
(* socket.on('disconnect').                                                *)
(***************************************************************************)
(* mutation: the viewersCount > 0 test is missing *)
LeavesUnguarded(rs, id) == Present(rs, id)

Leaves(rs, id) == Present(rs, id) /\ rs[id].viewersCount > 0

(* mutation: the leave is not counted *)
LeftUncounted(rs, id) == rs

Left(rs, id) ==
  IF Leaves(rs, id) THEN [rs EXCEPT ![id].viewersCount = @ - 1] ELSE rs

OnDisconnect(s, opname) ==
  LET id == socks[s].roomId
  IN /\ rooms' = Left(rooms, id)
     /\ emitted' = IF Leaves(rooms, id)
                   THEN <<Event("state_update", ToRoom(id), rooms'[id])>>
                   ELSE <<>>
     /\ socks' = [socks EXCEPT ![s].st = "closed"]
     /\ last' = Op(opname, s, id, "", 0)
     /\ before' = rooms
     /\ UNCHANGED <<keys, msgSeq, ticks, created, referenced, pending>>

Disconnect(s) ==
  /\ socks[s].st = "joined"
  /\ OnDisconnect(s, "disconnect")

(* the transport delivers the disconnect event of a closed socket again *)
DisconnectAgain(s) ==
  /\ socks[s].st = "closed"
  /\ OnDisconnect(s, "disconnect_again")

(***************************************************************************)
(* socket.on('admin_action').                                              *)
(***************************************************************************)
(* mutation: the action is applied to every room of the registry *)
AdminActionAll(s, action) ==
  LET id == socks[s].roomId
  IN /\ socks[s].st = "joined"
     /\ IF Present(rooms, id)
        THEN /\ rooms' = [k \in DOMAIN rooms |-> AdminApply(rooms[k], action)]
             /\ emitted' = <<Event("state_update", ToRoom(id), rooms'[id])>>
        ELSE /\ rooms' = rooms
             /\ emitted' = <<>>
     /\ last' = Op("admin_action", s, id, action, 0)
     /\ before' = rooms
     /\ UNCHANGED <<keys, socks, msgSeq, ticks, created, referenced, pending>>

AdminAction(s, action) ==
  LET id == socks[s].roomId
  IN /\ socks[s].st = "joined"
     /\ IF Present(rooms, id)
        THEN /\ rooms' = [rooms EXCEPT ![id] = AdminApply(@, action)]
             /\ emitted' = <<Event("state_update", ToRoom(id), rooms'[id])>>
        ELSE /\ rooms' = rooms
             /\ emitted' = <<>>
     /\ last' = Op("admin_action", s, id, action, 0)
     /\ before' = rooms
     /\ UNCHANGED <<keys, socks, msgSeq, ticks, created, referenced, pending>>

(***************************************************************************)
(* socket.on('send_message').                                              *)
(***************************************************************************)
SendMessage(s, p, cap) ==
  LET id == socks[s].roomId
      m == NewMessage(msgSeq + 1, p)
  IN /\ socks[s].st = "joined"
     /\ msgSeq < cap
     /\ p.isDonation => Present(rooms, id) /\ Len(rooms[id].donations) < MaxDonations
     /\ IF Present(rooms, id)
        THEN /\ rooms' = [rooms EXCEPT ![id] = AppendMessage(@, m, p)]
             /\ msgSeq' = msgSeq + 1
             /\ emitted' = <<Event("chat_update", ToRoom(id), m)>>
        ELSE /\ UNCHANGED <<rooms, msgSeq>>
             /\ emitted' = <<>>
     /\ last' = Op("send_message", s, id, "", 0)
     /\ before' = rooms
     /\ UNCHANGED <<keys, socks, ticks, created, referenced, pending>>

(***************************************************************************)
(* socket.on('send_reaction').                                             *)
(***************************************************************************)
(* mutation: the reaction is sent back to the sender only *)
SendReactionEcho(s, type) ==
  /\ socks[s].st = "joined"
  /\ emitted' = <<Event("reaction_received", ToSocket(s), [type |-> type])>>
  /\ last' = Op("send_reaction", s, socks[s].roomId, type, 0)
  /\ before' = rooms
  /\ UNCHANGED <<rooms, keys, socks, msgSeq, ticks, created, referenced, pending>>

SendReaction(s, type) ==
  /\ socks[s].st = "joined"
  /\ emitted' = <<Event("reaction_received", ToRoom(socks[s].roomId), [type |-> type])>>
  /\ last' = Op("send_reaction", s, socks[s].roomId, type, 0)
  /\ before' = rooms
  /\ UNCHANGED <<rooms, keys, socks, msgSeq, ticks, created, referenced, pending>>

(***************************************************************************)
(* GET /api/token, up to the await.                                        *)
(***************************************************************************)
(* mutation: the field check runs after the room is ensured *)
TokenRejectedAfterCreate(roomName, participantName) ==
  /\ roomName = "" \/ participantName = ""
  /\ rooms' = (IF roomName = "" THEN rooms ELSE getOrCreateRoom(rooms, roomName))
  /\ keys' = (IF roomName = "" THEN keys ELSE KeysAfter(keys, rooms, roomName))
  /\ emitted' = <<>>
  /\ last' = Op("token", 0, roomName, participantName, 400)
  /\ before' = rooms
  /\ UNCHANGED <<socks, msgSeq, ticks, created, referenced, pending>>

(* mutation: the handler forgets to ensure the room *)
EnsureRoomSkipped(rs, roomName) == rs

EnsureRoom(rs, roomName) == getOrCreateRoom(rs, roomName)

TokenRejected(roomName, participantName) ==
  /\ roomName = "" \/ participantName = ""
  /\ emitted' = <<>>
  /\ last' = Op("token", 0, roomName, participantName, 400)
  /\ before' = rooms
  /\ UNCHANGED <<rooms, keys, socks, msgSeq, ticks, created, referenced, pending>>

TokenRequest(roomName, participantName, role, configured) ==
  /\ roomName # "" /\ participantName # ""
  /\ rooms' = EnsureRoom(rooms, roomName)
  /\ keys' = KeysAfter(keys, rooms, roomName)
  /\ created' = CreatedAfter(created, rooms, roomName)
  /\ referenced' = referenced \cup {roomName}
  /\ emitted' = <<>>
  /\ IF configured
     THEN /\ Cardinality(pending) < MaxPending
          /\ pending' = pending \cup
               {[room |-> roomName, identity |-> participantName,
                 canPublish |-> (role = "debater")]}
          /\ last' = Op("token", 0, roomName, participantName, 0)
          /\ before' = rooms
     ELSE /\ pending' = pending
          /\ last' = Op("token", 0, roomName, participantName, 500)
          /\ before' = rooms
  /\ UNCHANGED <<socks, msgSeq, ticks>>

(* the continuation after `await at.toJwt()`: res.json or the catch branch *)
TokenResolve(req, ok) ==
  /\ req \in pending
  /\ pending' = pending \ {req}
  /\ emitted' = <<>>
  /\ last' = Op("token_done", 0, req.room, req.identity, IF ok THEN 200 ELSE 500)
  /\ before' = rooms
  /\ UNCHANGED <<rooms, keys, socks, msgSeq, ticks, created, referenced>>

(***************************************************************************)
(* setInterval callback: the forEach over Object.keys(rooms).              *)
(***************************************************************************)
(* mutation: the callback runs the step twice for each room *)
TickAllTwice(rs) == [id \in DOMAIN rs |-> TickRoom(TickRoom(rs[id]))]

TickAll(rs) == [id \in DOMAIN rs |-> TickRoom(rs[id])]

OnTick ==
  /\ rooms' = TickAll(rooms)
  /\ emitted' = TickEvents(keys, rooms)
  /\ last' = Op("tick", 0, NoRoomId, "", 0)
  /\ before' = rooms
  /\ UNCHANGED <<keys, socks, msgSeq, created, referenced, pending>>

Tick ==
  /\ OnTick
  /\ UNCHANGED ticks

(* the same callback, with the number of its runs counted up to MaxRun *)
TickCounted ==
  /\ ticks < MaxRun
  /\ ticks' = ticks + 1
  /\ OnTick

(***************************************************************************)
(* The setInterval callback when io.to(id).emit throws for the k-th key:   *)
(* the forEach has no try/catch, so the rooms before it are done, the      *)
(* k-th room has been mutated, the rooms after it are not visited, and the *)
(* uncaught exception ends the process.                                    *)
(***************************************************************************)
TickUpTo(ks, rs, k) ==
  [id \in DOMAIN rs |-> IF \E i \in 1..k : ks[i] = id THEN TickRoom(rs[id]) ELSE rs[id]]

TickFailing(k) ==
  /\ k \in 1..Len(keys)
  /\ TickChanged(rooms[keys[k]])
  /\ rooms' = TickUpTo(keys, rooms, k)
  /\ emitted' = TickEvents(SubSeq(keys, 1, k - 1), rooms)
  /\ last' = Op("tick_failed", 0, keys[k], "", 0)
  /\ before' = rooms
  /\ UNCHANGED <<keys, socks, msgSeq, ticks, created, referenced, pending>>

Running == last.op # "tick_failed"

(***************************************************************************)
(* The connection and registry side of the server: two sockets, two room   *)
(* ids, token requests, admin actions.                                     *)
(***************************************************************************)
Next ==
  \/ \E s \in Sockets : ConnectRejected(s)
  \/ \E s \in Sockets, id \in RoomIds : Connect(s, id)
  \/ \E s \in Sockets : Disconnect(s)
  \/ \E s \in Sockets : DisconnectAgain(s)
  \/ \E s \in Sockets, a \in AdminActions : AdminAction(s, a)
  \/ \E s \in Sockets, t \in ReactionTypes : SendReaction(s, t)
  \/ \E rn \in RoomIds \cup {""}, pn \in Names : TokenRejected(rn, pn)
  \/ \E rn \in RoomIds, pn \in Names, role \in Roles, c \in BOOLEAN :
       TokenRequest(rn, pn, role, c)
  \/ \E req \in pending, ok \in BOOLEAN : TokenResolve(req, ok)

Spec == Init /\ [][Next]_vars

(***************************************************************************)
(* One show: one socket in room r1, every socket event and the scheduler   *)
(* with its timers run to the end.                                         *)
(***************************************************************************)
ShowNext(cap) ==
  \/ ConnectRejected(1)
  \/ Connect(1, "r1")
  \/ Disconnect(1)
  \/ DisconnectAgain(1)
  \/ \E a \in AdminActions : AdminAction(1, a)
  \/ \E p \in Payloads : SendMessage(1, p, cap)
  \/ \E t \in ReactionTypes : SendReaction(1, t)
  \/ Tick

NextShow == ShowNext(MaxMsgs)

SpecShow == Init /\ [][NextShow]_vars

(***************************************************************************)
(* A long chat: socket 2 joins r1, sends up to MaxAppends messages, leaves. *)
(***************************************************************************)
NextChat ==
  \/ Connect(2, "r1")
  \/ \E p \in ChatPayloads : SendMessage(2, p, MaxAppends)
  \/ Disconnect(2)

SpecChat == Init /\ [][NextChat]_vars

(***************************************************************************)
(* The show in a busy room: socket 2 joined r1, sent ChatLimit - 1 plain   *)
(* messages and left (a state SpecChat reaches); then one show as above.   *)
(***************************************************************************)
BusyRoom(viewers) ==
  [DefaultRoom EXCEPT
     !.viewersCount = viewers,
     !.chatMessages = [i \in 1..(ChatLimit - 1) |-> NewMessage(i, PlainPayload)]]

InitBusy ==
  /\ rooms = ("r1" :> BusyRoom(0))
  /\ keys = <<"r1">>
  /\ socks = [s \in Sockets |-> IF s = 2 THEN [st |-> "closed", roomId |-> "r1"]
                                         ELSE [st |-> "new", roomId |-> NoRoomId]]
  /\ msgSeq = ChatLimit - 1
  /\ ticks = 0
  /\ created = [id \in RoomIds |-> IF id = "r1" THEN 1 ELSE 0]
  /\ referenced = {"r1"}
  /\ pending = {}
  /\ emitted = <<Event("state_update", ToRoom("r1"), BusyRoom(0))>>
  /\ last = Op("disconnect", 2, "r1", "", 0)
  /\ before = ("r1" :> BusyRoom(1))

(* InitBusy, as a predicate on the states of SpecChat *)
BusyReached ==
  /\ rooms = ("r1" :> BusyRoom(0)) /\ keys = <<"r1">> /\ msgSeq = ChatLimit - 1
  /\ socks[2] = [st |-> "closed", roomId |-> "r1"] /\ socks[1].st = "new"
  /\ created["r1"] = 1 /\ referenced = {"r1"} /\ pending = {}
  /\ emitted = <<Event("state_update", ToRoom("r1"), BusyRoom(0))>>
  /\ last = Op("disconnect", 2, "r1", "", 0) /\ before = ("r1" :> BusyRoom(1))

NextBusy == ShowNext(ChatLimit + MaxMsgs)

SpecBusy == InitBusy /\ [][NextBusy]_vars

(***************************************************************************)
(* The scheduler alone: socket 1 joined r1 and sent admin_action start;    *)
(* from there only the setInterval callback runs, its runs counted.        *)
(***************************************************************************)
StartedRoom == [DefaultRoom EXCEPT !.phase = "intro", !.timeLeft = IntroTime,
                                   !.viewersCount = 1]

InitStarted ==
  /\ rooms = ("r1" :> StartedRoom)
  /\ keys = <<"r1">>
  /\ socks = [s \in Sockets |-> IF s = 1 THEN [st |-> "joined", roomId |-> "r1"]
                                         ELSE [st |-> "new", roomId |-> NoRoomId]]
  /\ msgSeq = 0
  /\ ticks = 0
  /\ created = [id \in RoomIds |-> IF id = "r1" THEN 1 ELSE 0]
  /\ referenced = {"r1"}
  /\ pending = {}
  /\ emitted = <<Event("state_update", ToRoom("r1"), StartedRoom)>>
  /\ last = Op("admin_action", 1, "r1", "start", 0)
  /\ before = ("r1" :> [DefaultRoom EXCEPT !.viewersCount = 1])

NextTimer == TickCounted

SpecTimer == InitStarted /\ [][NextTimer]_vars

(***************************************************************************)
(* The admin handler as a function of the room it finds: socket 1 is in   *)
(* r1, whose RoomState is any value of the type, and sends admin actions.  *)
(***************************************************************************)
AnyRoomStates ==
  [phase : Phases, timeLeft : InitTimes, activePlayer : Players, viewersCount : {1, 2},
   chatMessages : {<<>>, <<NewMessage(1, DonationPayload)>>},
   donations : {<<>>, <<[user |-> "ann", amount |-> <<5>>]>>}]

InitAny ==
  /\ \E r \in AnyRoomStates : rooms = ("r1" :> r)
  /\ keys = <<"r1">>
  /\ socks = [s \in Sockets |-> IF s = 1 THEN [st |-> "joined", roomId |-> "r1"]
                                         ELSE [st |-> "new", roomId |-> NoRoomId]]
  /\ msgSeq = 1
  /\ ticks = 0
  /\ created = [id \in RoomIds |-> IF id = "r1" THEN 1 ELSE 0]
  /\ referenced = {"r1"}
  /\ pending = {}
  /\ emitted = <<>>
  /\ last = Op("init", 0, NoRoomId, "", 0)
  /\ before = rooms

NextAdmin == \E a \in AdminActions : AdminAction(1, a)

SpecAdmin == InitAny /\ [][NextAdmin]_vars

(***************************************************************************)
(* Two shows: socket 1 in r1, socket 2 in r2, admin actions and the        *)
(* scheduler over both rooms.                                              *)
(***************************************************************************)
TwoNext ==
  \/ Connect(1, "r1")
  \/ Connect(2, "r2")
  \/ \E s \in Sockets, a \in AdminActions : AdminAction(s, a)
  \/ Tick

NextTwo == TwoNext

SpecTwo == Init /\ [][NextTwo]_vars

(* the same, with an emit of the scheduler that may throw *)
NextFault ==
  \/ Running /\ Connect(1, "r1")
  \/ Running /\ Connect(2, "r2")
  \/ Running /\ \E s \in Sockets, a \in AdminActions : AdminAction(s, a)
  \/ Running /\ Tick
  \/ Running /\ \E k \in 1..Len(keys) : TickFailing(k)

SpecFault == Init /\ [][NextFault]_vars

(***************************************************************************)
(* Two sockets and two rooms where each socket's disconnect event is       *)
(* handled once, as socket.io delivers it: every handler, the token        *)
(* endpoint up to its room lookup, and the first MaxTicks runs of the      *)
(* scheduler.                                                              *)
(***************************************************************************)
TickFirst ==
  /\ ticks < MaxTicks
  /\ ticks' = ticks + 1
  /\ OnTick

NextOnce ==
  \/ Connect(1, "r1")
  \/ \E id \in RoomIds : Connect(2, id)
  \/ \E s \in Sockets : Disconnect(s)
  \/ \E s \in Sockets, a \in {"next_round", "reset"} : AdminAction(s, a)
  \/ SendMessage(1, DonationPayload, MaxMsgs)
  \/ SendReaction(2, "fire")
  \/ \E pn \in Names : TokenRejected("r2", pn) \/ TokenRequest("r2", pn, "viewer", FALSE)
  \/ TickFirst

SpecOnce == Init /\ [][NextOnce]_vars

(***************************************************************************)
(* Properties.                                                             *)
(***************************************************************************)
Min(a, b) == IF a < b THEN a ELSE b

StateUpdates == {i \in 1..Len(emitted) : emitted[i].ev = "state_update"}

(* C1: in every reachable state every room of the registry has timeLeft >= 0
   and at most 50 chat messages, whatever joins, leaves, admin actions,
   messages and ticks came before. *)
C1_Bounded ==
  \A id \in DOMAIN rooms :
    /\ rooms[id].timeLeft >= 0
    /\ Len(rooms[id].chatMessages) <= 50

(* a tick met an expired timer, and the chat has been cut to its limit *)
C1_Witness ==
  /\ last.op = "tick"
  /\ before["r1"].timeLeft = 0
  /\ rooms["r1"].timeLeft = 0
  /\ msgSeq > 50
  /\ Len(rooms["r1"].chatMessages) = 50

(* C2: from intro/15 under ticks alone the room is roundA/45/A after 15
   ticks, roundB/45/B after 60, ad/5/none after 105, voting/0/none after 110,
   and stays so on every later tick. *)
C2_Schedule ==
  LET r == rooms["r1"]
      Is(ph, t, pl) == r.phase = ph /\ r.timeLeft = t /\ r.activePlayer = pl
  IN /\ ticks = 0 => Is("intro", 15, "none")
     /\ ticks = 15 => Is("roundA", 45, "A")
     /\ ticks = 60 => Is("roundB", 45, "B")
     /\ ticks = 105 => Is("ad", 5, "none")
     /\ ticks >= 110 => Is("voting", 0, "none")

C2_Witness ==
  /\ ticks > 110
  /\ last.op = "tick"
  /\ rooms["r1"].phase = "voting"
  /\ before["r1"] = rooms["r1"]

(* C3: admin start gives intro/15/none from any phase and timeLeft;
   next_round gives intro -> roundA/45/A, roundA -> roundB/45/B,
   roundB -> ad/5/none, ad -> voting/0/none and roundA/45/A from waiting,
   voting, finished and rage. *)
C3_Table(ph, action) ==
  IF action = "start" THEN <<"intro", 15, "none">>
  ELSE CASE ph = "intro" -> <<"roundA", 45, "A">>
         [] ph = "roundA" -> <<"roundB", 45, "B">>
         [] ph = "roundB" -> <<"ad", 5, "none">>
         [] ph = "ad" -> <<"voting", 0, "none">>
         [] ph \in {"waiting", "voting", "finished", "rage"} -> <<"roundA", 45, "A">>

C3_AdminTable ==
  (last.op = "admin_action" /\ last.arg \in {"start", "next_round"}) =>
    LET want == C3_Table(before[last.room].phase, last.arg)
        r == rooms[last.room]
    IN <<r.phase, r.timeLeft, r.activePlayer>> = want

C3_Witness ==
  /\ last.op = "admin_action" /\ last.arg = "next_round"
  /\ before["r1"].phase = "rage" /\ before["r1"].timeLeft = 7
  /\ rooms["r1"].phase = "roundA" /\ rooms["r1"].timeLeft = 45

(* C4: admin reset on a room in any state gives waiting/0/none with empty
   chat and donations and the viewersCount it had; a reset that directly
   follows a reset of the same room changes nothing. *)
C4_ResetShape ==
  (last.op = "admin_action" /\ last.arg = "reset") =>
    rooms[last.room] =
      [phase |-> "waiting", timeLeft |-> 0, activePlayer |-> "none",
       viewersCount |-> before[last.room].viewersCount,
       chatMessages |-> <<>>, donations |-> <<>>]

C4_ResetTwice ==
  (/\ last.op = "admin_action" /\ last.arg = "reset"
   /\ last'.op = "admin_action" /\ last'.arg = "reset" /\ last'.room = last.room)
  => rooms' = rooms

C4_Reset == []C4_ResetShape /\ [][C4_ResetTwice]_vars

C4_Witness ==
  /\ last.op = "admin_action" /\ last.arg = "reset"
  /\ before["r1"].phase = "rage"
  /\ before["r1"].chatMessages # <<>> /\ before["r1"].donations # <<>>
  /\ rooms["r1"].chatMessages = <<>> /\ rooms["r1"].donations = <<>>
  /\ rooms["r1"].viewersCount = 2

(* C5: after N send_message events on a room, with no reset, its chat is the
   last min(N, 50) messages in arrival order; after 60 it is messages 11..60. *)
C5_LastFifty ==
  \A id \in DOMAIN rooms :
    LET chat == rooms[id].chatMessages
        n == Min(msgSeq, 50)
    IN /\ Len(chat) = n
       /\ \A i \in 1..n : chat[i].id = msgSeq - n + i
       /\ (last.op = "send_message" => chat[n] = emitted[1].data)
       /\ (msgSeq = 60 => chat[1].id = 11 /\ chat[50].id = 60)

C5_Witness ==
  /\ msgSeq = 60
  /\ Len(rooms["r1"].chatMessages) = 50
  /\ rooms["r1"].chatMessages[1].id = 11
  /\ rooms["r1"].chatMessages[50].id = 60

(* C6: viewersCount is never negative, and a disconnect handled while it is
   0 leaves it at 0, also when the disconnect event comes a second time. *)
C6_ViewersFloor ==
  /\ \A id \in DOMAIN rooms : rooms[id].viewersCount >= 0
  /\ (/\ last.op \in {"disconnect", "disconnect_again"}
      /\ before[last.room].viewersCount = 0)
     => rooms[last.room].viewersCount = 0

C6_Witness ==
  /\ last.op = "disconnect_again"
  /\ before[last.room].viewersCount = 0
  /\ rooms[last.room].viewersCount = 0

(* C7: a first reference to an id (join or token request) inserts the default
   state, a later one finds the state unchanged; whatever the order of the
   references, one state is created per id and each join counts on it. *)
C7_Found(id) ==
  IF id \in DOMAIN before
  THEN before[id]
  ELSE [phase |-> "waiting", timeLeft |-> 0, activePlayer |-> "none",
        viewersCount |-> 0, chatMessages |-> <<>>, donations |-> <<>>]

C7_References(id) == last.room = id /\
  \/ last.op = "connect"
  \/ last.op = "token" /\ last.status # 400

C8_Consistent(r) ==
  /\ r.activePlayer = "A" <=> r.phase = "roundA"
  /\ r.activePlayer = "B" <=> r.phase = "roundB"
  /\ r.activePlayer = "none" <=> r.phase \notin {"roundA", "roundB"}

C8_ActivePlayer ==
  /\ \A id \in DOMAIN rooms : C8_Consistent(rooms[id])
  /\ \A i \in StateUpdates : C8_Consistent(emitted[i].data)

C8_Witness ==
  /\ last.op = "tick"
  /\ "r1" \in DOMAIN before
  /\ before["r1"].phase = "roundA"
  /\ \E i \in StateUpdates :
       emitted[i].data.phase = "roundB" /\ emitted[i].data.activePlayer = "B"

C10_Rejected ==
  /\ last.op = "connect_rejected" =>
       /\ socks[last.sock].st = "rejected"
       /\ rooms = before /\ emitted = <<>>
  /\ (last.op = "token" /\ (last.room = "" \/ last.arg = "")) =>
       /\ last.status = 400
       /\ rooms = before /\ emitted = <<>>

(* participantName is missing, roomName names a room that does not exist *)
C10_Witness ==
  /\ last.op = "token" /\ last.status = 400
  /\ last.room = "r2" /\ "r2" \notin DOMAIN rooms
  /\ \E s \in Sockets : socks[s].st = "rejected"
  /\ \E id \in DOMAIN rooms : rooms[id].viewersCount > 0

(* C11: in a tick a room's state_update is broadcast exactly when the tick
   decremented its timeLeft or fired an auto-transition for it, and a room
   at timeLeft 0 in waiting or voting is left as it was, with no broadcast. *)
C11_SentTo(id) == {i \in 1..Len(emitted) : emitted[i].to = [sock |-> 0, room |-> id]}

C11_Moved(id) ==
  \/ rooms[id].timeLeft = before[id].timeLeft - 1
  \/ rooms[id].phase # before[id].phase

C11_Broadcast ==
  last.op = "tick" =>
    \A id \in DOMAIN before :
      /\ Cardinality(C11_SentTo(id)) = (IF C11_Moved(id) THEN 1 ELSE 0)
      /\ \A i \in C11_SentTo(id) :
           emitted[i].ev = "state_update" /\ emitted[i].data = rooms[id]
      /\ (before[id].timeLeft = 0 /\ before[id].phase \in {"waiting", "voting"}) =>
           rooms[id] = before[id] /\ C11_SentTo(id) = {}

(* one tick: r1 idle in voting and silent, r2 auto-advanced and broadcast *)
C11_Witness ==
  /\ last.op = "tick"
  /\ DOMAIN before = {"r1", "r2"}
  /\ before["r1"].phase = "voting" /\ rooms["r1"] = before["r1"]
  /\ before["r2"].phase = "intro" /\ rooms["r2"].phase = "roundA"
  /\ Len(emitted) = 1 /\ emitted[1].to.room = "r2"

(* C12: no room is ever in phase finished or rage, in the registry or in a
   broadcast snapshot. *)
C12_Unreached ==
  /\ \A id \in DOMAIN rooms : rooms[id].phase \notin {"finished", "rage"}
  /\ \A i \in StateUpdates : emitted[i].data.phase \notin {"finished", "rage"}

(* the timers ran the show into voting, and next_round restarts it *)
C12_Witness ==
  /\ last.op = "admin_action" /\ last.arg = "next_round"
  /\ before["r1"].phase = "voting"
  /\ rooms["r1"].phase = "roundA"

(* C16: a tick changes a room's phase only if it took timeLeft from 1 to 0 in
   intro, roundA, roundB or ad; a room at timeLeft 0 when the tick starts is
   not advanced. *)
C16_JustExpired ==
  last.op = "tick" =>
    \A id \in DOMAIN before :
      /\ (rooms[id].phase # before[id].phase \/
          rooms[id].activePlayer # before[id].activePlayer) =>
           /\ before[id].timeLeft = 1
           /\ before[id].phase \in {"intro", "roundA", "roundB", "ad"}
      /\ before[id].timeLeft = 0 => rooms[id] = before[id]

C16_Witness ==
  /\ last.op = "tick"
  /\ "r1" \in DOMAIN before
  /\ before["r1"].phase = "ad" /\ before["r1"].timeLeft = 1
  /\ rooms["r1"].phase = "voting" /\ rooms["r1"].timeLeft = 0

(* C13: the amount of a chat message created by send_message is 0 whenever
   the payload carries no amount or is not flagged as a donation, and is the
   payload's amount for a donation that supplies one. *)
C13_Expected(p) ==
  IF p.isDonation /\ p.amount # <<>> THEN p.amount[1] ELSE 0

C13_Amount ==
  [][\A p \in Payloads :
       (SendMessage(1, p, MaxMsgs) /\ emitted' # <<>>) =>
         /\ emitted'[1].data.amount = C13_Expected(p)
         /\ rooms'["r1"].chatMessages[Len(rooms'["r1"].chatMessages)].amount
              = C13_Expected(p)]_vars

(* C19: donations changes only by one {user, amount} entry appended by a
   send_message flagged as a donation, the entry carrying the amount of the
   chat message created with it; other messages, the 50-entry truncation and
   every other handler leave it alone, and only an admin reset empties it. *)
C19_Entry(m) == [user |-> m.user, amount |-> <<m.amount>>]

C19_Donations ==
  \A id \in DOMAIN before :
    LET old == before[id].donations
        new == rooms[id].donations
    IN IF last.op = "send_message" /\ last.room = id /\ emitted # <<>>
       THEN new = IF emitted[1].data.isDonation
                  THEN Append(old, C19_Entry(emitted[1].data))
                  ELSE old
       ELSE IF last.op = "admin_action" /\ last.arg = "reset" /\ last.room = id
       THEN new = <<>>
       ELSE new = old

(* C14: a tick steps every room that is in the registry when it starts
   exactly once (timeLeft down by one if positive, then the auto-transition
   if it is 0 in a timed phase) and neither adds nor removes a room; a room
   created between two ticks is stepped by the later one. *)
C14_Step(r) ==
  LET t == IF r.timeLeft > 0 THEN r.timeLeft - 1 ELSE r.timeLeft
  IN IF t = 0 /\ r.phase = "intro"
       THEN [r EXCEPT !.phase = "roundA", !.timeLeft = 45, !.activePlayer = "A"]
     ELSE IF t = 0 /\ r.phase = "roundA"
       THEN [r EXCEPT !.phase = "roundB", !.timeLeft = 45, !.activePlayer = "B"]
     ELSE IF t = 0 /\ r.phase = "roundB"
       THEN [r EXCEPT !.phase = "ad", !.timeLeft = 5, !.activePlayer = "none"]
     ELSE IF t = 0 /\ r.phase = "ad"
       THEN [r EXCEPT !.phase = "voting", !.timeLeft = 0, !.activePlayer = "none"]
     ELSE [r EXCEPT !.timeLeft = t]

C14_EveryRoomOnce ==
  last.op = "tick" =>
    /\ DOMAIN rooms = DOMAIN before
    /\ \A id \in DOMAIN before : rooms[id] = C14_Step(before[id])

(* a tick over two rooms with running timers, r2 created after r1: each one
   second down *)
C14_Witness ==
  /\ last.op = "tick"
  /\ keys = <<"r1", "r2">>
  /\ DOMAIN before = {"r1", "r2"}
  /\ before["r1"].timeLeft > 1 /\ rooms["r1"].timeLeft = before["r1"].timeLeft - 1
  /\ before["r2"].timeLeft > 1 /\ rooms["r2"].timeLeft = before["r2"].timeLeft - 1

(* C15: when the processing of one room fails during a tick, every other
   room that was in the registry at the start of the tick has still been
   stepped by that tick. *)
C15_Isolated ==
  last.op = "tick_failed" =>
    \A id \in DOMAIN before \ {last.room} : rooms[id] = TickRoom(before[id])

(* C17: an accepted connection raises the room's viewersCount by exactly 1
   and changes nothing else; it sends the state first to the new socket and
   then to the room's group, both with the raised count. *)
C17_Old(id) ==
  IF id \in DOMAIN before
  THEN before[id]
  ELSE [phase |-> "waiting", timeLeft |-> 0, activePlayer |-> "none",
        viewersCount |-> 0, chatMessages |-> <<>>, donations |-> <<>>]

C17_Accepted ==
  last.op = "connect" =>
    /\ rooms[last.room] = [C17_Old(last.room) EXCEPT !.viewersCount = @ + 1]
    /\ \A id \in DOMAIN before \ {last.room} : rooms[id] = before[id]
    /\ DOMAIN rooms = DOMAIN before \cup {last.room}
    /\ emitted = << [ev |-> "state_update",
                     to |-> [sock |-> last.sock, room |-> ""],
                     data |-> rooms[last.room]],
                    [ev |-> "state_update",
                     to |-> [sock |-> 0, room |-> last.room],
                     data |-> rooms[last.room]] >>

(* a second viewer joins a show that is already running *)
C17_Witness ==
  /\ last.op = "connect"
  /\ last.room \in DOMAIN before
  /\ before[last.room].phase = "roundA"
  /\ before[last.room].viewersCount = 1
  /\ rooms[last.room].viewersCount = 2
  /\ emitted[2].data.viewersCount = 2

(* C18 as stated: the disconnect of an accepted subscriber whose room exists
   lowers viewersCount, floored at zero, and broadcasts the resulting state
   to the room's group. *)
C18_AlwaysBroadcast ==
  (last.op = "disconnect" /\ last.room \in DOMAIN before) =>
    /\ rooms[last.room] =
         [before[last.room] EXCEPT !.viewersCount = IF @ > 0 THEN @ - 1 ELSE 0]
    /\ emitted = << [ev |-> "state_update",
                     to |-> [sock |-> 0, room |-> last.room],
                     data |-> rooms[last.room]] >>

(* C18 amended: the disconnect of an accepted subscriber whose room exists
   lowers a positive viewersCount by 1 and broadcasts the resulting state to
   the room's group; at viewersCount 0 the room stays as it is and nothing is
   broadcast. *)
C18_Unsubscribe ==
  (last.op = "disconnect" /\ last.room \in DOMAIN before) =>
    /\ \A id \in DOMAIN before \ {last.room} : rooms[id] = before[id]
    /\ IF before[last.room].viewersCount > 0
       THEN /\ rooms[last.room] = [before[last.room] EXCEPT !.viewersCount = @ - 1]
            /\ emitted = << [ev |-> "state_update",
                             to |-> [sock |-> 0, room |-> last.room],
                             data |-> rooms[last.room]] >>
       ELSE /\ rooms[last.room] = before[last.room]
            /\ emitted = <<>>

(* a subscriber leaves a room whose count an earlier repeated disconnect
   event has already taken to 0 *)
C18_Witness ==
  /\ last.op = "disconnect"
  /\ last.room \in DOMAIN before
  /\ before[last.room].viewersCount = 0
  /\ rooms[last.room].viewersCount = 0
  /\ emitted = <<>>

(* C20: send_reaction changes no room and nothing in the registry, and emits
   exactly one reaction_received with the payload's type to the sender's
   room group. *)
C20_Stateless ==
  last.op = "send_reaction" =>
    /\ rooms = before
    /\ emitted = << [ev |-> "reaction_received",
                     to |-> [sock |-> 0, room |-> socks[last.sock].roomId],
                     data |-> [type |-> last.arg]] >>

C20_Witness ==
  /\ last.op = "send_reaction" /\ last.arg = "heart"
  /\ last.room \in DOMAIN rooms
  /\ rooms[last.room].phase = "roundB"
  /\ rooms[last.room].viewersCount = 2

(* C21: in every state a room in intro, roundA, roundB or ad has
   0 < timeLeft <= 15, 45, 45, 5 respectively, and a room in waiting or
   voting has timeLeft = 0. *)
C21_Limit(ph) ==
  IF ph = "intro" THEN 15
  ELSE IF ph \in {"roundA", "roundB"} THEN 45
  ELSE IF ph = "ad" THEN 5
  ELSE 0

C21_TimerRange ==
  \A id \in DOMAIN rooms :
    LET r == rooms[id]
    IN /\ r.phase \in {"intro", "roundA", "roundB", "ad", "waiting", "voting"}
       /\ r.phase \in {"intro", "roundA", "roundB", "ad"} =>
            0 < r.timeLeft /\ r.timeLeft <= C21_Limit(r.phase)
       /\ r.phase \in {"waiting", "voting"} => r.timeLeft = 0

(* the tick that takes roundB from 1 to 0 leaves the room in ad with 5 *)
C21_Witness ==
  /\ last.op = "tick"
  /\ "r1" \in DOMAIN before
  /\ before["r1"].phase = "roundB" /\ before["r1"].timeLeft = 1
  /\ rooms["r1"].phase = "ad" /\ rooms["r1"].timeLeft = 5

(* C22: while each socket's disconnect is handled at most once, a room's
   viewersCount is the number of joined sockets bound to it, and admin
   actions, chat messages, reactions, token requests and ticks leave every
   viewersCount as it was. *)
C22_Connected(id) ==
  {s \in Sockets : socks[s].st = "joined" /\ socks[s].roomId = id}

C22_ViewersCount ==
  /\ \A id \in DOMAIN rooms :
       rooms[id].viewersCount = Cardinality(C22_Connected(id))
  /\ last.op \in {"admin_action", "send_message", "send_reaction", "token", "tick"} =>
       \A id \in DOMAIN before : rooms[id].viewersCount = before[id].viewersCount

(* a reset of a room with chat history, one viewer gone and one present *)
C22_Witness ==
  /\ last.op = "admin_action" /\ last.arg = "reset" /\ last.room = "r1"
  /\ socks[1].st = "closed"
  /\ socks[2] = [st |-> "joined", roomId |-> "r1"]
  /\ before["r1"].chatMessages # <<>>
  /\ before["r1"].phase = "ad"
  /\ rooms["r1"].viewersCount = 1

(* C23: a join, leave, admin action or send_message of a socket bound to a
   room leaves every other room as it was and emits only to that room's
   group or to the socket itself, which is in that group; in a tick a room
   changes only if its own timer was running, and each event carries the
   state of the room it is addressed to. *)
C23_OwnGroup(e) ==
  \/ e.to = [sock |-> 0, room |-> last.room]
  \/ /\ e.to = [sock |-> last.sock, room |-> ""]
     /\ socks[last.sock] = [st |-> "joined", roomId |-> last.room]

C23_Isolated ==
  /\ last.op \in {"connect", "disconnect", "admin_action", "send_message"} =>
       /\ \A id \in DOMAIN before \ {last.room} : rooms[id] = before[id]
       /\ DOMAIN rooms \subseteq DOMAIN before \cup {last.room}
       /\ \A i \in 1..Len(emitted) : C23_OwnGroup(emitted[i])
  /\ last.op = "tick" =>
       /\ \A id \in DOMAIN before :
            rooms[id] # before[id] => before[id].timeLeft > 0
       /\ \A i \in 1..Len(emitted) :
            /\ emitted[i].to.sock = 0
            /\ emitted[i].to.room \in DOMAIN before
            /\ emitted[i].data = rooms[emitted[i].to.room]
            /\ rooms[emitted[i].to.room] # before[emitted[i].to.room]

(* r1 is reset while r2 is in the middle of a round *)
C23_Witness ==
  /\ last.op = "admin_action" /\ last.arg = "reset" /\ last.room = "r1"
  /\ DOMAIN before = {"r1", "r2"}
  /\ before["r1"].phase = "roundB"
  /\ rooms["r1"].phase = "waiting"
  /\ rooms["r2"].phase = "roundA" /\ rooms["r2"].timeLeft = 43
  /\ rooms["r2"].viewersCount = 1

====
